---- MODULE Spec2Model ----
(***************************************************************************)
(* Model of the Whisk client of src/api/generate.ts: the credential store, *)
(* the lazy authorization bootstrap (#checkCredentials), the single-call   *)
(* operations and the two-phase refineImage, as asynchronous calls on one  *)
(* client instance that interleave at their awaits.                        *)
(***************************************************************************)
EXTENDS Naturals, Integers, Sequences, FiniteSets, Bags, TLC

(***************************************************************************)
(* Bounds of the model.                                                    *)
(***************************************************************************)
\* Number of calls that may be in progress on the instance at once.
MaxCalls == 2

(***************************************************************************)
(* JavaScript values.  Every value is a record [t, v]: t is the type tag,  *)
(* v the text of the value.                                                *)
(***************************************************************************)
Undefined == [t |-> "undefined", v |-> ""]
Null == [t |-> "null", v |-> ""]
Str(s) == [t |-> "string", v |-> s]
Num(s) == [t |-> "number", v |-> s]
Bool(b) == [t |-> "boolean", v |-> IF b THEN "true" ELSE "false"]
Arr(s) == [t |-> "array", v |-> s]
Obj(s) == [t |-> "object", v |-> s]
Error(msg) == [t |-> "Error", v |-> msg]

\* JavaScript truthiness (the `!x` and `a || b` tests of the source).
Truthy(x) ==
  ~ \/ x.t \in {"undefined", "null"}
    \/ x.t = "string" /\ x.v = ""
    \/ x.t = "number" /\ x.v \in {"0", "NaN"}
    \/ x.t = "boolean" /\ x.v = "false"

\* `x == undefined` (loose equality: undefined or null).
IsNullish(x) == x.t \in {"undefined", "null"}

\* String(x), and the conversion `"..." + x` applies.
JsString(x) ==
  CASE x.t = "undefined" -> "undefined"
    [] x.t = "null" -> "null"
    [] x.t = "Error" -> "Error: " \o x.v
    [] x.t = "object" -> "[object Object]"
    [] OTHER -> x.v

(***************************************************************************)
(* Result<T>: the object literals { Ok: v } and { Err: e } of the source.  *)
(* A field the literal does not set reads as undefined.                    *)
(***************************************************************************)
OkResult(v) == [Ok |-> v, Err |-> Undefined]
ErrResult(e) == [Ok |-> Undefined, Err |-> e]
NoResult == [Ok |-> Undefined, Err |-> Undefined]

\* The test `r.Err || !r.Ok` every caller of a Result makes.
Failed(r) == Truthy(r.Err) \/ ~Truthy(r.Ok)

(***************************************************************************)
(* Response texts of the remote service and JSON.parse on them.            *)
(***************************************************************************)
TxtEmpty == ""
TxtHtml == "<html>502</html>"
TxtNull == "null"
TxtEmptyObj == "{}"
TxtError == "{\"error\":\"forbidden\"}"
TxtAvailable == "{\"availabilityState\":\"AVAILABLE\"}"
TxtToken1 == "{\"access_token\":\"tok123\"}"
TxtToken2 == "{\"access_token\":\"tok456\"}"
TxtCredits == "{\"credits\":100}"
TxtWorkflow == "{\"result\":{\"data\":{\"json\":{\"result\":{\"workflowId\":\"wf1\"}}}}}"
TxtWorkflowError == "{\"error\":\"quota\",\"result\":{\"data\":{\"json\":{\"result\":{\"workflowId\":\"wf1\"}}}}}"
TxtList == "{\"result\":{\"data\":{\"json\":{\"result\":{\"userWorkflows\":[{\"name\":\"m1\"}]}}}}}"
TxtMedia == "{\"result\":{\"data\":{\"json\":{\"result\":{\"media\":[{\"name\":\"m1\"}]}}}}}"
TxtImage == "{\"result\":{\"data\":{\"json\":{\"result\":{\"image\":{\"encodedImage\":\"aGk=\"}}}}}}"
TxtRewrite == "{\"result\":{\"data\":{\"json\":\"a cat on a roof\"}}}"
TxtRewriteNullError == "{\"error\":null,\"result\":{\"data\":{\"json\":\"a cat on a roof\"}}}"
TxtRewriteError == "{\"error\":\"blocked\",\"result\":{\"data\":{\"json\":\"a cat on a roof\"}}}"
TxtImages == "{\"images\":[\"aGk=\"]}"
TxtImagesError == "{\"error\":\"blocked\",\"images\":[\"aGk=\"]}"

\* Texts of the sub-objects a response nests.
SubJsonWorkflow == "{\"result\":{\"workflowId\":\"wf1\"}}"
SubResultWorkflow == "{\"workflowId\":\"wf1\"}"
SubJsonList == "{\"result\":{\"userWorkflows\":[{\"name\":\"m1\"}]}}"
SubResultList == "{\"userWorkflows\":[{\"name\":\"m1\"}]}"
SubJsonMedia == "{\"result\":{\"media\":[{\"name\":\"m1\"}]}}"
SubResultMedia == "{\"media\":[{\"name\":\"m1\"}]}"
SubJsonImage == "{\"result\":{\"image\":{\"encodedImage\":\"aGk=\"}}}"
SubResultImage == "{\"image\":{\"encodedImage\":\"aGk=\"}}"

PJson == "result.data.json"
PResult == "result.data.json.result"

\* The members of each JSON object text, by property path.
WorkflowMembers ==
  (PJson :> Obj(SubJsonWorkflow)) @@ (PResult :> Obj(SubResultWorkflow))
    @@ ("result.data.json.result.workflowId" :> Str("wf1"))

Members ==
  (TxtEmptyObj :> <<>>)
  @@ (TxtError :> ("error" :> Str("forbidden")))
  @@ (TxtAvailable :> ("availabilityState" :> Str("AVAILABLE")))
  @@ (TxtToken1 :> ("access_token" :> Str("tok123")))
  @@ (TxtToken2 :> ("access_token" :> Str("tok456")))
  @@ (TxtCredits :> ("credits" :> Num("100")))
  @@ (TxtWorkflow :> WorkflowMembers)
  @@ (TxtWorkflowError :> (("error" :> Str("quota")) @@ WorkflowMembers))
  @@ (TxtList :> ((PJson :> Obj(SubJsonList)) @@ (PResult :> Obj(SubResultList))
        @@ ("result.data.json.result.userWorkflows" :> Arr("[{\"name\":\"m1\"}]"))))
  @@ (TxtMedia :> ((PJson :> Obj(SubJsonMedia)) @@ (PResult :> Obj(SubResultMedia))
        @@ ("result.data.json.result.media" :> Arr("[{\"name\":\"m1\"}]"))))
  @@ (TxtImage :> ((PJson :> Obj(SubJsonImage)) @@ (PResult :> Obj(SubResultImage))))
  @@ (SubResultImage :> (("image" :> Obj("{\"encodedImage\":\"aGk=\"}"))
        @@ ("image.encodedImage" :> Str("aGk="))))
  @@ (TxtRewrite :> (PJson :> Str("a cat on a roof")))
  @@ (TxtRewriteNullError :> (("error" :> Null) @@ (PJson :> Str("a cat on a roof"))))
  @@ (TxtRewriteError :> (("error" :> Str("blocked")) @@ (PJson :> Str("a cat on a roof"))))
  @@ (TxtImages :> ("images" :> Arr("[\"aGk=\"]")))
  @@ (TxtImagesError :> (("error" :> Str("blocked")) @@ ("images" :> Arr("[\"aGk=\"]"))))

\* JSON.parse(text): threw is TRUE when the text is not JSON; otherwise val is the
\* parsed value, an object (named by its text) or null.
JSONparse(text) ==
  IF text = TxtNull THEN [threw |-> FALSE, val |-> Null]
  ELSE IF text \in DOMAIN Members THEN [threw |-> FALSE, val |-> Obj(text)]
  ELSE [threw |-> TRUE, val |-> Undefined]

\* x?.a?.b, the optional chain: undefined when x is nullish or lacks the member.
Chain(x, path) ==
  IF x.t = "object" /\ x.v \in DOMAIN Members /\ path \in DOMAIN Members[x.v]
  THEN Members[x.v][path]
  ELSE Undefined

\* x.a, the plain member access, raises a TypeError when x is null or undefined.
AccessThrows(x) == IsNullish(x)

\* Whether the object has a member of that name at all.
HasMember(x, path) ==
  x.t = "object" /\ x.v \in DOMAIN Members /\ path \in DOMAIN Members[x.v]

\* Number(x)
JsNumber(x) ==
  CASE x.t = "number" -> x
    [] x.t = "null" -> Num("0")
    [] OTHER -> Num("NaN")

(***************************************************************************)
(* The transport function request(req) and the remote service.  A request  *)
(* is its url, its Cookie and Authorization headers and the members of its *)
(* JSON body or query.                                                     *)
(***************************************************************************)
UrlAvailability == "https://aisandbox-pa.googleapis.com/v1:checkAppAvailability"
UrlSession == "https://labs.google/fx/api/auth/session"
UrlCredits == "https://aisandbox-pa.googleapis.com/v1:GetUserVideoCreditStatusAction"
UrlWorkflow == "https://labs.google/fx/api/trpc/media.createOrUpdateWorkflow"
UrlHistory == "https://labs.google/fx/api/trpc/media.fetchUserHistory"
UrlProject == "https://labs.google/fx/api/trpc/media.getProjectWorkflow"
UrlMedia == "https://labs.google/fx/api/trpc/media.fetchMedia"
UrlGenerate == "https://aisandbox-pa.googleapis.com/v1/whisk:generateImage"
UrlRewrite == "https://labs.google/fx/api/trpc/backbone.generateRewrittenPrompt"
UrlBackbone == "https://aisandbox-pa.googleapis.com/v1:runBackboneImageGeneration"

NoFields ==
  [workflowId |-> Undefined, workflowName |-> Undefined, prompt |-> Undefined,
   userInstructions |-> Undefined, seed |-> Undefined,
   candidatesCount |-> Undefined, imageModel |-> Undefined,
   aspectRatio |-> Undefined, textInput |-> Undefined,
   existingPrompt |-> Undefined, mediaKey |-> Undefined, subtype |-> Undefined,
   limit |-> 0]

Request(url, cookie, authorization, fields) ==
  [url |-> url, Cookie |-> cookie, Authorization |-> authorization, f |-> fields]

NoRequest == Request("", Undefined, Undefined, NoFields)

\* The errors the transport function fails with.
TransportErrors == {Error("ECONNRESET")}

\* The texts the service answers a request to each url with: the answers every
\* endpoint can give (nothing, a gateway's page, null, an empty object, an error
\* report) and the endpoint's own envelopes.
TextsOf(url) ==
  {TxtEmpty, TxtHtml, TxtNull, TxtEmptyObj, TxtError} \cup
  CASE url = UrlAvailability -> {TxtAvailable}
    [] url = UrlSession -> {TxtToken1, TxtToken2}
    [] url = UrlCredits -> {TxtCredits}
    [] url = UrlWorkflow -> {TxtWorkflow, TxtWorkflowError}
    [] url = UrlHistory -> {TxtList}
    [] url = UrlProject -> {TxtMedia}
    [] url = UrlMedia -> {TxtImage}
    [] url = UrlGenerate -> {TxtImages, TxtImagesError}
    [] url = UrlRewrite -> {TxtRewrite, TxtRewriteNullError, TxtRewriteError}
    [] url = UrlBackbone -> {TxtImages, TxtImagesError}
    [] OTHER -> {}

\* What request(req) resolves to: a Result<string>, the raw response text on
\* success.
Responses(url) ==
  {ErrResult(e) : e \in TransportErrors} \cup {OkResult(Str(x)) : x \in TextsOf(url)}

(***************************************************************************)
(* Arguments of a call.  One record shape serves every operation; an       *)
(* operation reads only its own parameters.                                *)
(***************************************************************************)
NoArg ==
  [key |-> Undefined, name |-> Undefined, limitCount |-> 0, prompt |-> Undefined,
   projectId |-> Undefined, seed |-> Undefined, imageModel |-> Undefined,
   aspectRatio |-> Undefined, count |-> Undefined, existingPrompt |-> Undefined,
   newRefinement |-> Undefined]

(***************************************************************************)
(* What one synchronous run of a method ends in: it returns a Result,      *)
(* throws, awaits a request, or calls another method of the class.         *)
(***************************************************************************)
Return(arg, r) ==
  [k |-> "return", res |-> r, err |-> Undefined, req |-> NoRequest, pc |-> "",
   callee |-> "", arg |-> arg]
Throw(arg, e) ==
  [k |-> "throw", res |-> NoResult, err |-> e, req |-> NoRequest, pc |-> "",
   callee |-> "", arg |-> arg]
Await(arg, req, pc) ==
  [k |-> "await", res |-> NoResult, err |-> Undefined, req |-> req, pc |-> pc,
   callee |-> "", arg |-> arg]
\* The await of #checkCredentials on getAuthorizationToken, suspended in the
\* session lookup.
AwaitLookup(arg) ==
  [k |-> "lookup", res |-> NoResult, err |-> Undefined, req |-> NoRequest,
   pc |-> "checkCredentials", callee |-> "", arg |-> arg]
CallMethod(arg, callee) ==
  [k |-> "call", res |-> NoResult, err |-> Undefined, req |-> NoRequest, pc |-> "",
   callee |-> callee, arg |-> arg]

(***************************************************************************)
(* constructor                                                             *)
(***************************************************************************)
InvalidCookie == Str("INVALID_COOKIE")

\* The test of line 10 without the sentinel.
ConstructorThrowsNoSentinel(credentials) == ~Truthy(credentials.cookie)

\* The test of line 10: the constructor throws.
ConstructorThrows(credentials) ==
  ~Truthy(credentials.cookie) \/ credentials.cookie = InvalidCookie

\* `this.credentials = credentials`: the instance keeps the caller's object.
SameObject(credentials) == credentials

\* structuredClone(credentials): a new object (obj) with the values of the
\* argument's fields.
StructuredClone(credentials) ==
  [obj |-> "clone", cookie |-> credentials.cookie,
   authorizationKey |-> credentials.authorizationKey]

\* No credentials object: obj names the object a credentials value lives in,
\* "caller" for the one the caller built and passed to the constructor.
NoCredentials == [obj |-> "", cookie |-> Undefined, authorizationKey |-> Undefined]

(***************************************************************************)
(* #checkCredentials                                                       *)
(***************************************************************************)
\* Line 18: the cookie is missing.
CheckCredentialsNoCookie(credentials) == ~Truthy(credentials.cookie)

\* Line 22 without its test: the token is fetched on every call.
NeedsAuthorizationKeyAlways(credentials) == TRUE

\* Line 22: the authorization token has to be fetched.
NeedsAuthorizationKey(credentials) == ~Truthy(credentials.authorizationKey)

\* Line 25: the lookup did not give a token.
CheckCredentialsFails(resp) == Truthy(resp.Err) \/ ~Truthy(resp.Ok)

\* Line 26: the error #checkCredentials throws then.
CheckCredentialsError(resp) ==
  Error("Failed to get authorization token: " \o JsString(resp.Err))

\* Line 29: this.credentials.authorizationKey = resp.Ok
AssignAuthorizationKey(credentials, resp) ==
  [credentials EXCEPT !.authorizationKey = resp.Ok]

(***************************************************************************)
(* isAvailable                                                             *)
(***************************************************************************)
isAvailableBody(credentials, arg) ==
  Await(arg, Request(UrlAvailability, Undefined, Undefined, NoFields), "request")

isAvailableDecode(response) ==
  IF Truthy(response.Err) \/ ~Truthy(response.Ok) THEN ErrResult(response.Err)
  ELSE LET parsed == JSONparse(response.Ok.v) IN
    IF parsed.threw \/ AccessThrows(parsed.val)
    THEN ErrResult(Error("Failed to parse response: " \o JsString(response.Ok)))
    ELSE OkResult(Bool(Chain(parsed.val, "availabilityState") = Str("AVAILABLE")))

(***************************************************************************)
(* getAuthorizationToken                                                   *)
(***************************************************************************)
getAuthorizationTokenBody(credentials, arg) ==
  IF ~Truthy(credentials.cookie)
  THEN Return(arg, ErrResult(Error("Empty or invalid cookies.")))
  ELSE Await(arg,
             Request(UrlSession, Str(JsString(credentials.cookie)), Undefined, NoFields),
             "request")

getAuthorizationTokenDecode(resp) ==
  IF Truthy(resp.Err) \/ ~Truthy(resp.Ok) THEN ErrResult(resp.Err)
  ELSE LET parsed == JSONparse(resp.Ok.v)
           token == Chain(parsed.val, "access_token")
       IN IF parsed.threw
          THEN ErrResult(Error("Failed to parse response: " \o JsString(resp.Ok)))
          ELSE IF ~Truthy(token)
          THEN ErrResult(Error("Failed to get session token: " \o JsString(resp.Ok)))
          ELSE OkResult(Str(JsString(token)))

\* getAuthorizationToken storing String(token) before the test of line 90.
getAuthorizationTokenStoreBeforeTest(credentials, result) ==
  [credentials EXCEPT
     !.authorizationKey = IF IsNullish(result.Ok) THEN Str("undefined") ELSE result.Ok]

\* getAuthorizationToken with the assignment of line 95 in place.
getAuthorizationTokenStoreMutating(credentials, result) ==
  IF IsNullish(result.Ok) THEN credentials
  ELSE [credentials EXCEPT !.authorizationKey = result.Ok]

\* Lines 94-96: the credentials getAuthorizationToken leaves behind (it does
\* not store the token it obtained).
getAuthorizationTokenStore(credentials, result) == credentials

(***************************************************************************)
(* getCreditStatus                                                         *)
(***************************************************************************)
getCreditStatusBody(credentials, arg) ==
  Await(arg,
        Request(UrlCredits, Undefined, Str(JsString(credentials.authorizationKey)),
                NoFields),
        "request")

getCreditStatusDecode(response) ==
  IF Truthy(response.Err) \/ ~Truthy(response.Ok) THEN ErrResult(response.Err)
  ELSE LET responseBody == JSONparse(response.Ok.v) IN
    IF responseBody.threw \/ AccessThrows(responseBody.val)
    THEN ErrResult(Error("Failed to parse response: " \o JsString(response.Ok)))
    ELSE OkResult(JsNumber(Chain(responseBody.val, "credits")))

(***************************************************************************)
(* getNewProjectId                                                         *)
(***************************************************************************)
getNewProjectIdBody(credentials, arg, projectTitle) ==
  Await(arg,
        Request(UrlWorkflow, Str(JsString(credentials.cookie)), Undefined,
                [NoFields EXCEPT !.workflowName = projectTitle]),
        "request")

getNewProjectIdDecode(resp) ==
  IF Truthy(resp.Err) \/ ~Truthy(resp.Ok) THEN ErrResult(resp.Err)
  ELSE LET parsedResp == JSONparse(resp.Ok.v)
           workflowID == Chain(parsedResp.val, "result.data.json.result.workflowId")
       IN IF parsedResp.threw
          THEN ErrResult(Error("Failed to parse response: " \o JsString(resp.Ok)))
          ELSE IF Truthy(workflowID) THEN OkResult(Str(JsString(workflowID)))
          ELSE ErrResult(Error("Failed to create new library" \o JsString(resp.Ok)))

(***************************************************************************)
(* getProjectHistory, getImageHistory                                      *)
(***************************************************************************)
HistoryRequest(credentials, subtype, limitCount) ==
  Request(UrlHistory, Str(JsString(credentials.cookie)), Undefined,
          [NoFields EXCEPT !.subtype = Str(subtype), !.limit = limitCount])

getProjectHistoryBody(credentials, arg) ==
  Await(arg, HistoryRequest(credentials, "PROJECT", arg.limitCount), "request")

getProjectHistoryDecode(resp) ==
  IF Truthy(resp.Err) \/ ~Truthy(resp.Ok) THEN ErrResult(resp.Err)
  ELSE LET parsedResp == JSONparse(resp.Ok.v)
           workflowList == Chain(parsedResp.val, "result.data.json.result.userWorkflows")
       IN IF parsedResp.threw
          THEN ErrResult(Error("Failed to parse response: " \o JsString(resp.Ok)))
          ELSE IF Truthy(workflowList) /\ workflowList.t = "array"
          THEN OkResult(workflowList)
          ELSE ErrResult(Error("Failed to get project history: " \o JsString(resp.Ok)))

getImageHistoryBody(credentials, arg) ==
  IF arg.limitCount <= 0
  THEN Return(arg, ErrResult(Error("Limit count must be between 1 and 100.")))
  ELSE Await(arg, HistoryRequest(credentials, "IMAGE", arg.limitCount), "request")

getImageHistoryDecode(resp) ==
  IF Truthy(resp.Err) \/ ~Truthy(resp.Ok) THEN ErrResult(resp.Err)
  ELSE LET parsedResp == JSONparse(resp.Ok.v)
           mediaList == Chain(parsedResp.val, "result.data.json.result.userWorkflows")
       IN IF parsedResp.threw
          THEN ErrResult(Error("Failed to parse response: " \o JsString(resp.Ok)))
          ELSE IF Truthy(mediaList) /\ mediaList.t = "array"
          THEN OkResult(mediaList)
          ELSE ErrResult(Error("Failed to get image history: " \o JsString(resp.Ok)))

(***************************************************************************)
(* getProjectContent                                                       *)
(***************************************************************************)
getProjectContentBody(credentials, arg) ==
  IF ~Truthy(arg.projectId)
  THEN Return(arg, ErrResult(Error("Project ID is required to fetch project content.")))
  ELSE Await(arg,
             Request(UrlProject, Str(JsString(credentials.cookie)), Undefined,
                     [NoFields EXCEPT !.workflowId = arg.projectId]),
             "request")

getProjectContentDecode(resp) ==
  IF Truthy(resp.Err) \/ ~Truthy(resp.Ok) THEN ErrResult(resp.Err)
  ELSE LET parsedResp == JSONparse(resp.Ok.v)
           mediaList == Chain(parsedResp.val, "result.data.json.result.media")
       IN IF parsedResp.threw
          THEN ErrResult(Error("Failed to parse response: " \o JsString(resp.Ok)))
          ELSE IF ~Truthy(mediaList) \/ mediaList.t # "array"
          THEN ErrResult(Error("Failed to get project content: " \o JsString(resp.Ok)))
          ELSE OkResult(mediaList)

(***************************************************************************)
(* renameProject                                                           *)
(***************************************************************************)
renameProjectBody(credentials, arg) ==
  IF ~Truthy(credentials.cookie)
  THEN Return(arg, ErrResult(Error("Cookie field is empty")))
  ELSE Await(arg,
             Request(UrlWorkflow, Str(JsString(credentials.cookie)), Undefined,
                     [NoFields EXCEPT !.workflowId = arg.projectId,
                                      !.workflowName = arg.name]),
             "request")

renameProjectDecode(resp) ==
  IF Truthy(resp.Err) \/ ~Truthy(resp.Ok) THEN ErrResult(resp.Err)
  ELSE LET parsedBody == JSONparse(resp.Ok.v)
           workflowId == Chain(parsedBody.val, "result.data.json.result.workflowId")
       IN IF parsedBody.threw \/ AccessThrows(parsedBody.val)
          THEN ErrResult(Error("Failed to parse JSON: " \o JsString(resp.Ok)))
          ELSE IF Truthy(Chain(parsedBody.val, "error")) \/ ~Truthy(workflowId)
          THEN ErrResult(Error("Failed to rename project: " \o JsString(resp.Ok)))
          ELSE OkResult(Str(JsString(workflowId)))

(***************************************************************************)
(* getMedia                                                                *)
(***************************************************************************)
getMediaBody(credentials, arg, mediaKey) ==
  IF ~Truthy(mediaKey)
  THEN Return(arg, ErrResult(Error("Media key is required to fetch the image.")))
  ELSE Await(arg,
             Request(UrlMedia, Str(JsString(credentials.cookie)), Undefined,
                     [NoFields EXCEPT !.mediaKey = mediaKey]),
             "request")

getMediaDecode(resp) ==
  IF Truthy(resp.Err) \/ ~Truthy(resp.Ok) THEN ErrResult(resp.Err)
  ELSE LET parsedResp == JSONparse(resp.Ok.v)
           image == Chain(parsedResp.val, "result.data.json.result")
       IN IF parsedResp.threw
          THEN ErrResult(Error("Failed to parse response: " \o JsString(resp.Ok)))
          ELSE IF ~Truthy(image)
          THEN ErrResult(Error("Failed to get media: " \o JsString(resp.Ok)))
          ELSE OkResult(image)

(***************************************************************************)
(* generateImage                                                           *)
(***************************************************************************)
DefaultImageModel == Str("IMAGEN_3_5")
DefaultAspectRatio == Str("IMAGE_ASPECT_RATIO_LANDSCAPE")

\* generateImageDefaults with the seed set to 0 whatever the caller gave.
generateImageDefaultsSeedReset(prompt) ==
  [prompt EXCEPT
     !.seed = Num("0"),
     !.imageModel = IF ~Truthy(prompt.imageModel) THEN DefaultImageModel
                    ELSE prompt.imageModel,
     !.aspectRatio = IF ~Truthy(prompt.aspectRatio) THEN DefaultAspectRatio
                     ELSE prompt.aspectRatio]

\* Lines 475-486: the defaults generateImage fills into the prompt.
generateImageDefaults(prompt) ==
  [prompt EXCEPT
     !.seed = IF IsNullish(prompt.seed) THEN Num("0") ELSE prompt.seed,
     !.imageModel = IF ~Truthy(prompt.imageModel) THEN DefaultImageModel
                    ELSE prompt.imageModel,
     !.aspectRatio = IF ~Truthy(prompt.aspectRatio) THEN DefaultAspectRatio
                     ELSE prompt.aspectRatio]

\* Lines 475-513: fill the defaults, build the request, send it.
generateImageSend(credentials, prompt) ==
  LET filled == generateImageDefaults(prompt) IN
  Await(filled,
        Request(UrlGenerate, Undefined,
                Str("Bearer " \o JsString(credentials.authorizationKey)),
                [NoFields EXCEPT !.workflowId = filled.projectId,
                                 !.imageModel = filled.imageModel,
                                 !.aspectRatio = filled.aspectRatio,
                                 !.seed = filled.seed,
                                 !.prompt = filled.prompt]),
        "request")

\* Lines 462-473, up to the call of getNewProjectId.
generateImageBody(credentials, prompt) ==
  IF ~Truthy(prompt.prompt)
  THEN Return(prompt, ErrResult(Error(
         "Invalid prompt. Please provide a valid prompt and projectId")))
  ELSE IF ~Truthy(prompt.projectId)
  THEN CallMethod(prompt, "getNewProjectId")
  ELSE generateImageSend(credentials, prompt)

\* generateImageWithProject without the test of line 469.
generateImageWithProjectUnchecked(credentials, prompt, id) ==
  generateImageSend(credentials, [prompt EXCEPT !.projectId = id.Ok])

\* Lines 469-472, with the Result of getNewProjectId.
generateImageWithProject(credentials, prompt, id) ==
  IF Truthy(id.Err) \/ ~Truthy(id.Ok)
  THEN Return(prompt, ErrResult(id.Err))
  ELSE generateImageSend(credentials, [prompt EXCEPT !.projectId = id.Ok])

\* generateImageDecode with the transport's error wrapped in a new one.
generateImageDecodeWrapping(resp) ==
  IF Truthy(resp.Err) \/ ~Truthy(resp.Ok)
  THEN ErrResult(Error("Failed to generate image: " \o JsString(resp.Err)))
  ELSE LET parsedResp == JSONparse(resp.Ok.v) IN
    IF parsedResp.threw \/ AccessThrows(parsedResp.val)
    THEN ErrResult(Error("Failed to parse response:" \o JsString(resp.Ok)))
    ELSE IF Truthy(Chain(parsedResp.val, "error"))
    THEN ErrResult(Error("Failed to generate image: " \o JsString(resp.Ok)))
    ELSE OkResult(parsedResp.val)

generateImageDecode(resp) ==
  IF Truthy(resp.Err) \/ ~Truthy(resp.Ok) THEN ErrResult(resp.Err)
  ELSE LET parsedResp == JSONparse(resp.Ok.v) IN
    IF parsedResp.threw \/ AccessThrows(parsedResp.val)
    THEN ErrResult(Error("Failed to parse response:" \o JsString(resp.Ok)))
    ELSE IF Truthy(Chain(parsedResp.val, "error"))
    THEN ErrResult(Error("Failed to generate image: " \o JsString(resp.Ok)))
    ELSE OkResult(parsedResp.val)

(***************************************************************************)
(* refineImage                                                             *)
(***************************************************************************)
\* Lines 543-557: the defaults refineImage fills into the request.
refineImageDefaults(ref) ==
  [ref EXCEPT
     !.seed = IF IsNullish(ref.seed) THEN Num("0") ELSE ref.seed,
     !.aspectRatio = IF ~Truthy(ref.aspectRatio) THEN DefaultAspectRatio
                     ELSE ref.aspectRatio,
     !.imageModel = IF ~Truthy(ref.imageModel) THEN DefaultImageModel
                    ELSE ref.imageModel,
     !.count = IF ~Truthy(ref.count) THEN Num("1") ELSE ref.count]

\* Lines 543-606: phase A, the request to the prompt-rewriting endpoint.
refineImageBody(credentials, ref) ==
  LET filled == refineImageDefaults(ref) IN
  Await(filled,
        Request(UrlRewrite, Str(JsString(credentials.cookie)), Undefined,
                [NoFields EXCEPT !.existingPrompt = filled.existingPrompt,
                                 !.textInput = filled.newRefinement,
                                 !.prompt = filled.existingPrompt,
                                 !.userInstructions = filled.existingPrompt,
                                 !.mediaKey = filled.key,
                                 !.seed = filled.seed]),
        "request")

\* The value of the response text, undefined when there is none or it does not
\* parse.
ParsedResponse(resp) ==
  IF resp.Ok = Undefined THEN Undefined ELSE JSONparse(resp.Ok.v).val

\* Line 622: the rewritten prompt of the phase-A response.
refineImageNewPrompt(parsedResp) == Chain(parsedResp, "result.data.json")

\* refineImageRequest2 with the caller's instruction for the prompt.
refineImageRequest2OriginalText(credentials, ref, newPrompt) ==
  Request(UrlBackbone, Undefined,
          Str("Bearer " \o JsString(credentials.authorizationKey)),
          [NoFields EXCEPT !.candidatesCount = ref.count,
                           !.seed = ref.seed,
                           !.prompt = ref.newRefinement,
                           !.userInstructions = ref.newRefinement,
                           !.workflowId = ref.projectId,
                           !.imageModel = ref.imageModel,
                           !.aspectRatio = ref.aspectRatio])

\* Lines 627-661: phase B, the request to the generation endpoint.
refineImageRequest2(credentials, ref, newPrompt) ==
  Request(UrlBackbone, Undefined,
          Str("Bearer " \o JsString(credentials.authorizationKey)),
          [NoFields EXCEPT !.candidatesCount = ref.count,
                           !.seed = ref.seed,
                           !.prompt = newPrompt,
                           !.userInstructions = newPrompt,
                           !.workflowId = ref.projectId,
                           !.imageModel = ref.imageModel,
                           !.aspectRatio = ref.aspectRatio])

\* refineImagePhaseAFailure without the test of the "error" member (line 614).
refineImagePhaseAFailureNoErrorTest(resp) ==
  IF Truthy(resp.Err) \/ ~Truthy(resp.Ok)
  THEN [fails |-> TRUE, res |-> ErrResult(resp.Err)]
  ELSE LET parsedResp == JSONparse(resp.Ok.v) IN
    IF parsedResp.threw \/ AccessThrows(parsedResp.val)
    THEN [fails |-> TRUE,
          res |-> ErrResult(Error("Failed to parse response: " \o JsString(resp.Ok)))]
    ELSE IF ~Truthy(Chain(parsedResp.val, "result.data.json"))
    THEN [fails |-> TRUE,
          res |-> ErrResult(Error("Failed to get new prompt from response: "
                                    \o JsString(resp.Ok)))]
    ELSE [fails |-> FALSE, res |-> NoResult]

\* Lines 607-625: the failure phase A ends the call with, or no failure
\* (a Result with neither side set is returned by line 608 only).
refineImagePhaseAFailure(resp) ==
  IF Truthy(resp.Err) \/ ~Truthy(resp.Ok)
  THEN [fails |-> TRUE, res |-> ErrResult(resp.Err)]
  ELSE LET parsedResp == JSONparse(resp.Ok.v) IN
    IF parsedResp.threw \/ AccessThrows(parsedResp.val)
    THEN [fails |-> TRUE,
          res |-> ErrResult(Error("Failed to parse response: " \o JsString(resp.Ok)))]
    ELSE IF Truthy(Chain(parsedResp.val, "error"))
    THEN [fails |-> TRUE,
          res |-> ErrResult(Error("Failed to refine image: " \o JsString(resp.Ok)))]
    ELSE IF ~Truthy(refineImageNewPrompt(parsedResp.val))
    THEN [fails |-> TRUE,
          res |-> ErrResult(Error("Failed to get new prompt from response: "
                                    \o JsString(resp.Ok)))]
    ELSE [fails |-> FALSE, res |-> NoResult]

\* refineImageAfterPhaseA going on to phase B whatever phase A answered.
refineImageAfterPhaseAUnconditional(credentials, ref, resp) ==
  Await(ref,
        refineImageRequest2(credentials, ref,
                            refineImageNewPrompt(ParsedResponse(resp))),
        "request2")

\* Lines 606-661: what refineImage does with the phase-A response.
refineImageAfterPhaseA(credentials, ref, resp) ==
  LET a == refineImagePhaseAFailure(resp) IN
  IF a.fails THEN Return(ref, a.res)
  ELSE Await(ref,
             refineImageRequest2(credentials, ref,
                                 refineImageNewPrompt(JSONparse(resp.Ok.v).val)),
             "request2")

\* Lines 662-675: the Result of phase B.
refineImageDecode2(resp2) ==
  IF Truthy(resp2.Err) \/ ~Truthy(resp2.Ok) THEN ErrResult(resp2.Err)
  ELSE LET parsedResp2 == JSONparse(resp2.Ok.v) IN
    IF parsedResp2.threw \/ AccessThrows(parsedResp2.val)
    THEN ErrResult(Error("Failed to parse response: " \o JsString(resp2.Ok)))
    ELSE IF Truthy(Chain(parsedResp2.val, "error"))
    THEN ErrResult(Error("Failed to refine image: " \o JsString(resp2.Ok)))
    ELSE OkResult(parsedResp2.val)

(***************************************************************************)
(* saveImageDirect                                                         *)
(***************************************************************************)
\* What writeFileSync does: it writes the file or throws.
FileOutcomes == {"written", "EACCES"}

\* Lines 702-713, with the Result of getMedia.
saveImageDirectWithMedia(arg, image, io) ==
  IF Truthy(image.Err) \/ ~Truthy(image.Ok) THEN Return(arg, ErrResult(image.Err))
  ELSE IF AccessThrows(Chain(image.Ok, "image"))
  THEN Return(arg, ErrResult(Error("Failed to save image: TypeError")))
  ELSE IF io = "written" THEN Return(arg, OkResult(Bool(TRUE)))
  ELSE Return(arg, ErrResult(Error("Failed to save image: Error: " \o io)))

(***************************************************************************)
(* The methods as one dispatch: what a method does once entered, after its *)
(* `await this.#checkCredentials()` when it has one.  `op` is the public   *)
(* operation the caller invoked, `method` the method now running (op       *)
(* itself, or the method op awaits).                                       *)
(***************************************************************************)
Operations ==
  {"isAvailable", "getAuthorizationToken", "getCreditStatus", "getNewProjectId",
   "getProjectHistory", "getImageHistory", "getProjectContent", "renameProject",
   "getMedia", "generateImage", "refineImage", "saveImageDirect"}

\* The methods that begin with `await this.#checkCredentials()`.
ChecksCredentials ==
  {"getCreditStatus", "getNewProjectId", "getProjectHistory", "getImageHistory",
   "getProjectContent", "getMedia", "generateImage", "refineImage"}

Body(method, credentials, arg, op) ==
  CASE method = "isAvailable" -> isAvailableBody(credentials, arg)
    [] method = "getAuthorizationToken" -> getAuthorizationTokenBody(credentials, arg)
    [] method = "getCreditStatus" -> getCreditStatusBody(credentials, arg)
    [] method = "getNewProjectId" ->
         getNewProjectIdBody(credentials, arg,
                             IF op = "generateImage" THEN Str("New Project")
                             ELSE arg.name)
    [] method = "getProjectHistory" -> getProjectHistoryBody(credentials, arg)
    [] method = "getImageHistory" -> getImageHistoryBody(credentials, arg)
    [] method = "getProjectContent" -> getProjectContentBody(credentials, arg)
    [] method = "renameProject" -> renameProjectBody(credentials, arg)
    [] method = "getMedia" -> getMediaBody(credentials, arg, arg.key)
    [] method = "generateImage" -> generateImageBody(credentials, arg)
    [] method = "refineImage" -> refineImageBody(credentials, arg)
    [] method = "saveImageDirect" -> CallMethod(arg, "getMedia")

\* Lines 17-23: #checkCredentials up to its await, then the method's body.
Enter(method, credentials, arg, op) ==
  IF method \notin ChecksCredentials THEN Body(method, credentials, arg, op)
  ELSE IF CheckCredentialsNoCookie(credentials)
  THEN Throw(arg, Error("Credentials are not set. Please provide a valid cookie."))
  ELSE IF NeedsAuthorizationKey(credentials)
  THEN LET o == getAuthorizationTokenBody(credentials, arg) IN
       IF o.k = "await" THEN AwaitLookup(arg)
       ELSE Throw(arg, CheckCredentialsError(o.res))
  ELSE Body(method, credentials, arg, op)

\* What the caller of a method does with the Result the method returned.
Continue(op, credentials, arg, r, io) ==
  CASE op = "generateImage" -> generateImageWithProject(credentials, arg, r)
    [] op = "saveImageDirect" -> saveImageDirectWithMedia(arg, r, io)

(***************************************************************************)
(* State.                                                                  *)
(***************************************************************************)
VARIABLES
  instance,     \* "none", "live" (constructed) or "threw" (the constructor threw)
  given,        \* the credentials object the caller passed to the constructor
  credentials,  \* this.credentials
  calls         \* the bag of the calls in progress on the instance

vars == <<instance, given, credentials, calls>>

\* A call: the operation invoked, the method it awaits (inner), where it is
\* suspended (pc), its argument object, the requests its methods have sent and
\* what the transport function resolved each to (got), and how it ended: the
\* Result it returned (res) or the error it threw (err).  The session lookup
\* #checkCredentials awaits is not in sent and got: the call is then suspended
\* at pc = "checkCredentials", and the lookup's outcome is the token stored or
\* the error thrown.
IdleCall ==
  [op |-> "", inner |-> "", pc |-> "idle", arg |-> NoArg, sent |-> <<>>,
   got |-> <<>>, res |-> NoResult, err |-> Undefined]

Method(call) == IF call.inner # "" THEN call.inner ELSE call.op

LastSent(call) == call.sent[Len(call.sent)]

\* The call once `await request(req)` has resolved to `resp`.
Received(call, resp) == [call EXCEPT !.got = Append(@, resp)]

\* The call after one synchronous run of its code that ended in `o`.
RECURSIVE Run(_, _, _, _)
Run(call, cred, o, io) ==
  CASE o.k = "await" ->
         [call EXCEPT !.pc = o.pc, !.arg = o.arg, !.sent = Append(@, o.req)]
    [] o.k = "lookup" -> [call EXCEPT !.pc = o.pc, !.arg = o.arg]
    [] o.k = "throw" ->
         [call EXCEPT !.pc = "raised", !.inner = "", !.arg = o.arg, !.err = o.err]
    [] o.k = "call" ->
         Run([call EXCEPT !.inner = o.callee, !.arg = o.arg], cred,
             Enter(o.callee, cred, o.arg, call.op), io)
    [] o.k = "return" ->
         IF call.inner = ""
         THEN [call EXCEPT !.pc = "returned", !.arg = o.arg, !.res = o.res]
         ELSE Run([call EXCEPT !.inner = "", !.arg = o.arg], cred,
                  Continue(call.op, cred, o.arg, o.res, io), io)

(***************************************************************************)
(* Inputs.                                                                 *)
(***************************************************************************)
SessionCookie == Str("session-abc")

CredentialInputs ==
  [obj : {"caller"},
   cookie : {Undefined, Str(""), InvalidCookie, SessionCookie},
   authorizationKey : {Undefined, Str("tok123")}]

\* What the caller may later assign to the fields of its own object.
OtherCookie == Str("session-xyz")
OtherToken == Str("tok789")

Keys == {Str(""), Str("m1")}
Limits == {0, 5}

Prompts ==
  {[NoArg EXCEPT !.prompt = Str("")],
   [NoArg EXCEPT !.prompt = Str("a cat")],
   [NoArg EXCEPT !.prompt = Str("a cat"), !.projectId = Str("wf0"),
                 !.seed = Num("0"), !.imageModel = Str("IMAGEN_4"),
                 !.aspectRatio = Str("IMAGE_ASPECT_RATIO_SQUARE")],
   [NoArg EXCEPT !.prompt = Str("a cat"), !.projectId = Str("wf0"),
                 !.seed = Num("7")]}

Refinements ==
  {[NoArg EXCEPT !.existingPrompt = Str("a cat"), !.newRefinement = Str("on a roof"),
                 !.key = Str("m1"), !.projectId = Str("wf0")],
   [NoArg EXCEPT !.existingPrompt = Str("a cat"), !.newRefinement = Str("on a roof"),
                 !.key = Str("m1"), !.projectId = Str("wf0"), !.seed = Num("0"),
                 !.count = Num("2"), !.imageModel = Str("IMAGEN_4"),
                 !.aspectRatio = Str("IMAGE_ASPECT_RATIO_SQUARE")],
   [NoArg EXCEPT !.existingPrompt = Str("a cat"), !.newRefinement = Str("on a roof"),
                 !.key = Str("m1"), !.projectId = Str("wf0"), !.seed = Num("7"),
                 !.count = Num("0")]}

(***************************************************************************)
(* Init and the actions.                                                   *)
(***************************************************************************)
Init ==
  /\ instance = "none"
  /\ given = NoCredentials
  /\ credentials = NoCredentials
  /\ calls = EmptyBag

InProgress == BagToSet(calls)

One(call) == SetToBag({call})

\* new Whisk(c)
Construct ==
  /\ instance = "none"
  /\ \E c \in CredentialInputs :
       /\ given' = c
       /\ IF ConstructorThrows(c)
          THEN instance' = "threw" /\ credentials' = credentials
          ELSE instance' = "live" /\ credentials' = StructuredClone(c)
  /\ UNCHANGED calls

\* No call has ended without its caller having taken the outcome: the caller's
\* continuation runs as soon as the promise settles, before any other response
\* is delivered.
Quiet == \A c \in InProgress : c.pc \notin {"returned", "raised"}

\* A call of a public operation on the instance: its code up to its first
\* await, or to its end.
Start(op, arg) ==
  /\ instance = "live"
  /\ Quiet
  /\ BagCardinality(calls) < MaxCalls
  /\ calls' = calls (+) One(Run([IdleCall EXCEPT !.op = op], credentials,
                                Enter(op, credentials, arg, op), "written"))
  /\ UNCHANGED <<instance, given, credentials>>

isAvailable == Start("isAvailable", NoArg)
getAuthorizationToken == Start("getAuthorizationToken", NoArg)
getCreditStatus == Start("getCreditStatus", NoArg)
getNewProjectId == Start("getNewProjectId", [NoArg EXCEPT !.name = Str("My Project")])
getProjectHistory ==
  \E n \in Limits : Start("getProjectHistory", [NoArg EXCEPT !.limitCount = n])
getImageHistory ==
  \E n \in Limits : Start("getImageHistory", [NoArg EXCEPT !.limitCount = n])
getProjectContent ==
  \E id \in {Str(""), Str("wf0")} :
    Start("getProjectContent", [NoArg EXCEPT !.projectId = id])
renameProject ==
  Start("renameProject",
        [NoArg EXCEPT !.name = Str("Renamed"), !.projectId = Str("wf0")])
getMedia == \E k \in Keys : Start("getMedia", [NoArg EXCEPT !.key = k])
generateImage == \E prompt \in Prompts : Start("generateImage", prompt)
refineImage == \E ref \in Refinements : Start("refineImage", ref)
saveImageDirect ==
  \E k \in Keys : Start("saveImageDirect", [NoArg EXCEPT !.key = k])

\* Lines 23-30 and on: the session lookup #checkCredentials awaits resolves;
\* getAuthorizationToken decodes it, #checkCredentials throws or stores the
\* token, and the method goes on to its body.
checkCredentialsResume ==
  /\ Quiet
  /\ \E call \in InProgress :
       /\ call.pc = "checkCredentials"
       /\ \E resp \in Responses(UrlSession) :
            LET token == getAuthorizationTokenDecode(resp)
                kept == getAuthorizationTokenStore(credentials, token)
                cred == AssignAuthorizationKey(kept, token)
            IN IF CheckCredentialsFails(token)
               THEN /\ credentials' = kept
                    /\ calls' = (calls (-) One(call)) (+)
                         One(Run(call, kept,
                                 Throw(call.arg, CheckCredentialsError(token)),
                                 "written"))
               ELSE /\ credentials' = cred
                    /\ calls' = (calls (-) One(call)) (+)
                         One(Run(call, cred,
                                 Body(Method(call), cred, call.arg, call.op),
                                 "written"))
  /\ given' = IF given.obj = credentials.obj THEN credentials' ELSE given
  /\ UNCHANGED instance

\* The Result a method makes of the response `resp` to its request.
Decode(method, resp) ==
  CASE method = "isAvailable" -> isAvailableDecode(resp)
    [] method = "getAuthorizationToken" -> getAuthorizationTokenDecode(resp)
    [] method = "getCreditStatus" -> getCreditStatusDecode(resp)
    [] method = "getNewProjectId" -> getNewProjectIdDecode(resp)
    [] method = "getProjectHistory" -> getProjectHistoryDecode(resp)
    [] method = "getImageHistory" -> getImageHistoryDecode(resp)
    [] method = "getProjectContent" -> getProjectContentDecode(resp)
    [] method = "renameProject" -> renameProjectDecode(resp)
    [] method = "getMedia" -> getMediaDecode(resp)
    [] method = "generateImage" -> generateImageDecode(resp)

\* The request a method awaits resolves; the method decodes the response and
\* returns.
Resume(method) ==
  /\ Quiet
  /\ \E call \in InProgress :
       /\ call.pc = "request"
       /\ Method(call) = method
       /\ \E resp \in Responses(LastSent(call).url) :
          \E io \in (IF call.op = "saveImageDirect" THEN FileOutcomes ELSE {"written"}) :
            LET r == Decode(method, resp) IN
            /\ calls' = (calls (-) One(call)) (+)
                 One(Run(Received(call, resp), credentials, Return(call.arg, r), io))
            /\ credentials' = IF method = "getAuthorizationToken"
                              THEN getAuthorizationTokenStore(credentials, r)
                              ELSE credentials
  /\ UNCHANGED <<instance, given>>

isAvailableResume == Resume("isAvailable")
getAuthorizationTokenResume == Resume("getAuthorizationToken")
getCreditStatusResume == Resume("getCreditStatus")
getNewProjectIdResume == Resume("getNewProjectId")
getProjectHistoryResume == Resume("getProjectHistory")
getImageHistoryResume == Resume("getImageHistory")
getProjectContentResume == Resume("getProjectContent")
renameProjectResume == Resume("renameProject")
getMediaResume == Resume("getMedia")
generateImageResume == Resume("generateImage")

\* Lines 606-661: the phase-A request of refineImage resolves.
refineImagePhaseA ==
  /\ Quiet
  /\ \E call \in InProgress :
       /\ call.pc = "request"
       /\ Method(call) = "refineImage"
       /\ \E resp \in Responses(LastSent(call).url) :
            calls' = (calls (-) One(call)) (+)
              One(Run(Received(call, resp), credentials,
                      refineImageAfterPhaseA(credentials, call.arg, resp), "written"))
  /\ UNCHANGED <<instance, given, credentials>>

\* Lines 661-675: the phase-B request of refineImage resolves.
refineImagePhaseB ==
  /\ Quiet
  /\ \E call \in InProgress :
       /\ call.pc = "request2"
       /\ \E resp2 \in Responses(LastSent(call).url) :
            calls' = (calls (-) One(call)) (+)
              One(Run(Received(call, resp2), credentials,
                      Return(call.arg, refineImageDecode2(resp2)), "written"))
  /\ UNCHANGED <<instance, given, credentials>>

\* The caller assigns to a field of the object it passed to the constructor.
\* The instance sees the assignment exactly if its credentials are that object.
CallerAssigns ==
  /\ instance = "live"
  /\ Quiet
  /\ given \in CredentialInputs
  /\ \E c \in {[given EXCEPT !.cookie = OtherCookie],
               [given EXCEPT !.authorizationKey = OtherToken]} :
       /\ given' = c
       /\ credentials' = IF credentials.obj = given.obj THEN c ELSE credentials
  /\ UNCHANGED <<instance, calls>>

\* The caller takes the outcome of a call that has ended (the Result its promise
\* resolved to, or the error it rejected with).
Settle ==
  /\ \E call \in InProgress :
       /\ call.pc \in {"returned", "raised"}
       /\ calls' = calls (-) One(call)
  /\ UNCHANGED <<instance, given, credentials>>

Next ==
  \/ Construct
  \/ isAvailable \/ isAvailableResume
  \/ getAuthorizationToken \/ getAuthorizationTokenResume
  \/ getCreditStatus \/ getCreditStatusResume
  \/ getNewProjectId \/ getNewProjectIdResume
  \/ getProjectHistory \/ getProjectHistoryResume
  \/ getImageHistory \/ getImageHistoryResume
  \/ getProjectContent \/ getProjectContentResume
  \/ renameProject \/ renameProjectResume
  \/ getMedia \/ getMediaResume
  \/ generateImage \/ generateImageResume
  \/ refineImage \/ refineImagePhaseA \/ refineImagePhaseB
  \/ saveImageDirect
  \/ checkCredentialsResume
  \/ Settle

Spec == Init /\ [][Next]_vars

\* The program together with a caller that writes to the credentials object it
\* passed to the constructor.
NextWithCaller == Next \/ CallerAssigns

SpecWithCaller == Init /\ [][NextWithCaller]_vars

(***************************************************************************)
(* Vocabulary of the properties.                                           *)
(***************************************************************************)
\* The Result is a success: its Ok side is set.
IsSuccess(r) == r.Ok # Undefined

\* The Result is not a success.
IsFailure(r) == r.Ok = Undefined

\* The transport function failed: the Result it resolved to carries an error.
TransportFailure(resp) == resp.Err # Undefined

\* The response text is not JSON.
DecodeFailure(resp) == ~TransportFailure(resp) /\ JSONparse(resp.Ok.v).threw

\* The value the response text parses to (undefined when it does not parse).
ParsedValue(resp) ==
  IF TransportFailure(resp) THEN Undefined ELSE JSONparse(resp.Ok.v).val

\* The response parses as JSON and has a top-level member named "error".
HasErrorField(resp) == HasMember(ParsedValue(resp), "error")

\* The service reports an error: the "error" member has a truthy value.
ReportsError(resp) == Truthy(Chain(ParsedValue(resp), "error"))

\* The url a call has sent a request to.
Invocations(call, url) == {i \in 1..Len(call.sent) : call.sent[i].url = url}

(***************************************************************************)
(* C1.  Every public operation completes by returning a Result and never   *)
(* by raising, whatever the transport does: no call ends with a thrown     *)
(* error (a rejected promise).                                             *)
(***************************************************************************)
C1_NeverRaises == \A c \in InProgress : c.pc # "raised"

(***************************************************************************)
(* C2.  In refineImage, when the response to the phase-A request (the      *)
(* first request of the call, to the prompt-rewriting endpoint) is a       *)
(* transport failure, is not JSON, reports an error (an "error" member     *)
(* with a truthy value, the test of line 614) or holds no rewritten prompt,*)
(* the call has returned a Result that is not a success and has sent no    *)
(* request to the generation endpoint.                                     *)
(***************************************************************************)
PhaseAFailed(resp) ==
  \/ TransportFailure(resp)
  \/ DecodeFailure(resp)
  \/ ReportsError(resp)
  \/ ~Truthy(Chain(ParsedValue(resp), "result.data.json"))

C2_PhaseAFailureSkipsPhaseB ==
  \A c \in InProgress :
    (c.op = "refineImage" /\ Len(c.got) >= 1 /\ PhaseAFailed(c.got[1]))
      => /\ c.pc = "returned"
         /\ IsFailure(c.res)
         /\ Invocations(c, UrlBackbone) = {}

\* A refineImage call whose phase A answered {"error":"forbidden"} has returned.
C2_Witness ==
  \E c \in InProgress :
    /\ c.op = "refineImage"
    /\ c.got = <<OkResult(Str(TxtError))>>
    /\ c.pc = "returned"
    /\ Len(c.sent) = 1

(***************************************************************************)
(* C3.  For every operation and every response that parses as JSON and has *)
(* a top-level member named "error", the operation returns a failure: a    *)
(* call that has returned after such a response has not returned a         *)
(* success.                                                                *)
(***************************************************************************)
C3_ErrorFieldFails ==
  \A c \in InProgress :
    (c.pc = "returned" /\ \E i \in 1..Len(c.got) : HasErrorField(c.got[i]))
      => IsFailure(c.res)

(***************************************************************************)
(* C4.  Whenever the transport function fails on a request a method sends  *)
(* (any request but the session lookup #checkCredentials awaits, whose     *)
(* failure #checkCredentials handles), the call has returned the failure   *)
(* carrying exactly the transport's error, and that request is the last    *)
(* the call has sent.                                                      *)
(***************************************************************************)
C4_TransportFailurePropagates ==
  \A c \in InProgress :
    \A i \in 1..Len(c.got) :
      TransportFailure(c.got[i])
        => /\ c.pc = "returned"
           /\ c.res = ErrResult(c.got[i].Err)
           /\ Len(c.got) = i
           /\ Len(c.sent) = i

\* A generateImage call whose generation request the transport failed.
C4_Witness ==
  \E c \in InProgress :
    /\ c.op = "generateImage"
    /\ Len(c.got) >= 1
    /\ LastSent(c).url = UrlGenerate
    /\ TransportFailure(c.got[Len(c.got)])
    /\ c.pc = "returned"

(***************************************************************************)
(* C5.  Every Result an operation returns has exactly one side set: a      *)
(* value and no error, or an error and no value.                           *)
(***************************************************************************)
C5_ExactlyOneVariant ==
  \A c \in InProgress :
    c.pc = "returned" => (c.res.Ok = Undefined) # (c.res.Err = Undefined)

(***************************************************************************)
(* C6.  The authorization bootstrap is idempotent: a call is suspended in  *)
(* the session lookup of #checkCredentials only when the authorization     *)
(* token was absent as the call entered it, so an operation started once   *)
(* the token is present performs no session lookup; and whenever an        *)
(* operation that requires authorization has passed #checkCredentials, the *)
(* token field is populated.                                               *)
(***************************************************************************)
\* The operations that run #checkCredentials (saveImageDirect through getMedia).
RequiresAuthorization == ChecksCredentials \cup {"saveImageDirect"}

C6_BootstrapIdempotent ==
  /\ [](\A c \in InProgress :
          (c.op \in RequiresAuthorization /\ c.pc \in {"request", "request2", "returned"})
            => Truthy(credentials.authorizationKey))
  /\ [][\A c \in BagToSet(calls') :
          (c.pc = "checkCredentials" /\ CopiesIn(c, calls') > CopiesIn(c, calls))
            => ~Truthy(credentials.authorizationKey)]_vars

\* The instance was constructed without a token, a bootstrap has stored one, and
\* getCreditStatus has gone on to send it.
C6_Witness ==
  /\ given.authorizationKey = Undefined
  /\ Truthy(credentials.authorizationKey)
  /\ \E c \in InProgress :
       /\ c.op = "getCreditStatus"
       /\ c.pc = "request"
       /\ LastSent(c).Authorization = credentials.authorizationKey

(***************************************************************************)
(* C7.  Over any interleaving of operations on one instance, the           *)
(* authorization token field is written at most once and only goes from    *)
(* absent to present: once present it keeps its value.                     *)
(***************************************************************************)
C7_TokenWrittenOnce ==
  [][Truthy(credentials.authorizationKey)
       => credentials'.authorizationKey = credentials.authorizationKey]_vars

(***************************************************************************)
(* C8.  The session token of an instance never changes after construction, *)
(* and the authorization token field changes only in a step in which a     *)
(* call suspended in #checkCredentials resumes: getAuthorizationToken,     *)
(* also when it obtains a token, and the request and decoding of every     *)
(* other method leave it as it is.                                         *)
(***************************************************************************)
C8_OnlyBootstrapWritesToken ==
  [][/\ instance # "none" => credentials'.cookie = credentials.cookie
     /\ credentials'.authorizationKey # credentials.authorizationKey
          => \/ instance = "none"
             \/ \E c \in InProgress :
                  /\ c.pc = "checkCredentials"
                  /\ CopiesIn(c, calls') < CopiesIn(c, calls)]_vars

\* getAuthorizationToken has returned a token and the instance stores none.
C8_Witness ==
  /\ credentials.authorizationKey = Undefined
  /\ \E c \in InProgress :
       /\ c.op = "getAuthorizationToken"
       /\ c.pc = "returned"
       /\ c.res = OkResult(Str("tok123"))

(***************************************************************************)
(* C9.  Constructing a client with an absent (undefined or empty) session  *)
(* token or with the sentinel "INVALID_COOKIE" throws: no instance exists  *)
(* afterwards, it holds no credentials, no call is ever in progress on it, *)
(* and no request ever carries such a cookie.                              *)
(***************************************************************************)
UnusableCookie(cookie) == cookie \in {Undefined, Str(""), Str("INVALID_COOKIE")}

C9_InvalidCookieFailsConstruction ==
  /\ instance # "none" => (instance = "threw" <=> UnusableCookie(given.cookie))
  /\ instance = "threw" => credentials = NoCredentials /\ calls = EmptyBag
  /\ \A c \in InProgress :
       \A i \in 1..Len(c.sent) :
         c.sent[i].Cookie \notin {Str(""), Str("undefined"), Str("INVALID_COOKIE")}

\* The constructor was given the sentinel cookie and threw.
C9_Witness == instance = "threw" /\ given.cookie = Str("INVALID_COOKIE")

(***************************************************************************)
(* C10.  When refineImage reaches phase B, the prompt of the generation    *)
(* request (its prompts entry and its userInstructions) is exactly the     *)
(* rewritten prompt of the phase-A response, result.data.json, and neither *)
(* the caller's new instruction nor the existing prompt description; and   *)
(* when the phase-B response is a JSON object without an "error" member,   *)
(* the call returns the success carrying that object.                      *)
(***************************************************************************)
C10_PhaseBUsesRewrittenPrompt ==
  \A c \in InProgress :
    c.op = "refineImage" =>
      /\ \A i \in Invocations(c, UrlBackbone) :
           /\ i = 2
           /\ c.sent[i].f.prompt = Chain(ParsedValue(c.got[1]), "result.data.json")
           /\ c.sent[i].f.userInstructions = c.sent[i].f.prompt
           /\ c.sent[i].f.prompt \notin {c.arg.newRefinement, c.arg.existingPrompt}
      /\ (/\ Len(c.got) = 2
          /\ ParsedValue(c.got[2]).t = "object"
          /\ ~HasErrorField(c.got[2]))
           => c.pc = "returned" /\ c.res = OkResult(ParsedValue(c.got[2]))

\* Phase A answered the rewritten prompt, phase B the images: the call has
\* returned them.
C10_Witness ==
  \E c \in InProgress :
    /\ c.op = "refineImage"
    /\ c.got = <<OkResult(Str(TxtRewrite)), OkResult(Str(TxtImages))>>
    /\ c.sent[2].f.prompt = Str("a cat on a roof")
    /\ c.res = OkResult(Obj(TxtImages))

(***************************************************************************)
(* C11.  An operation called with an invalid required argument (getMedia   *)
(* with an empty media key, getProjectContent with an empty project id,    *)
(* getImageHistory and getProjectHistory with a non-positive limit count,  *)
(* generateImage with an empty prompt text) fails before any network call: *)
(* it is never suspended in the session lookup or in a request, and it has *)
(* sent nothing.                                                           *)
(***************************************************************************)
InvalidArgument(c) ==
  \/ c.op = "getMedia" /\ c.arg.key = Str("")
  \/ c.op = "getProjectContent" /\ c.arg.projectId = Str("")
  \/ c.op \in {"getImageHistory", "getProjectHistory"} /\ c.arg.limitCount <= 0
  \/ c.op = "generateImage" /\ c.arg.prompt = Str("")

C11_InvalidArgumentFailsBeforeNetwork ==
  \A c \in InProgress :
    InvalidArgument(c) =>
      /\ c.pc \notin {"checkCredentials", "request", "request2"}
      /\ c.sent = <<>>
      /\ c.pc = "returned" => IsFailure(c.res)

(***************************************************************************)
(* C12.  When the session lookup an operation awaits in #checkCredentials  *)
(* fails (the step leaves the token absent), the operation ends in that    *)
(* step, the failure its caller receives carries the very error the lookup *)
(* produced, and the operation has sent no request.  The formula accepts   *)
(* the error either as the Err of the Result returned or as the error      *)
(* raised: it states the identity of the error, not the way it is          *)
(* delivered.                                                              *)
(***************************************************************************)
\* The call `c` suspended in the session lookup resumes in this step.
LookupResolves(c) ==
  c.pc = "checkCredentials" /\ CopiesIn(c, calls') < CopiesIn(c, calls)

C12_LookupFailurePropagatesUnchanged ==
  [][\A c \in InProgress :
       (LookupResolves(c) /\ ~Truthy(credentials'.authorizationKey)) =>
         \E resp \in Responses(UrlSession) :
           LET token == getAuthorizationTokenDecode(resp) IN
           /\ Failed(token)
           /\ \/ calls' = (calls (-) One(c)) (+)
                   One([c EXCEPT !.pc = "returned", !.inner = "",
                                 !.res = ErrResult(token.Err)])
              \/ calls' = (calls (-) One(c)) (+)
                   One([c EXCEPT !.pc = "raised", !.inner = "",
                                 !.err = token.Err])]_vars

(***************************************************************************)
(* C13.  In generateImage the project is created first when the prompt     *)
(* has no projectId: a request to the project-creation endpoint is the     *)
(* call's first request and is sent only while the prompt's projectId is   *)
(* absent; the generation request is sent only after getNewProjectId has   *)
(* returned a project id and carries that id; when getNewProjectId fails,  *)
(* the call returns that failure and has sent nothing to the generation    *)
(* endpoint.  With a projectId given, the generation request is the only   *)
(* request and carries the given id.                                       *)
(***************************************************************************)
C13_ProjectCreatedBeforeGeneration ==
  \A c \in InProgress :
    c.op = "generateImage" =>
      /\ Invocations(c, UrlWorkflow) \subseteq {1}
      /\ (Invocations(c, UrlWorkflow) = {1} /\ c.got = <<>>)
           => ~Truthy(c.arg.projectId)
      /\ \A i \in Invocations(c, UrlGenerate) :
           /\ Truthy(c.sent[i].f.workflowId)
           /\ c.sent[i].f.workflowId = c.arg.projectId
           /\ IF Invocations(c, UrlWorkflow) = {}
              THEN i = 1
              ELSE /\ i = 2
                   /\ getNewProjectIdDecode(c.got[1]) = OkResult(c.sent[i].f.workflowId)
      /\ (/\ Invocations(c, UrlWorkflow) = {1}
          /\ Len(c.got) >= 1
          /\ Failed(getNewProjectIdDecode(c.got[1])))
           => /\ c.pc = "returned"
              /\ c.res = ErrResult(getNewProjectIdDecode(c.got[1]).Err)
              /\ c.sent = <<c.sent[1]>>

\* The project was created as "wf1" and the generation request carrying it is
\* in flight.
C13_Witness ==
  \E c \in InProgress :
    /\ c.op = "generateImage"
    /\ c.pc = "request"
    /\ Len(c.sent) = 2
    /\ c.sent[1].url = UrlWorkflow
    /\ c.got = <<OkResult(Str(TxtWorkflow))>>
    /\ c.sent[2].url = UrlGenerate
    /\ c.sent[2].f.workflowId = Str("wf1")

(***************************************************************************)
(* C14.  After getAuthorizationToken has returned success(t), the          *)
(* generateImage call started next on the instance sends "Bearer t" (at    *)
(* once, or after a session lookup of its own, whatever token that lookup  *)
(* answers); and every request to a bearer-authenticated endpoint is sent  *)
(* with a present authorization token, the one the instance stores at the  *)
(* time of sending.                                                        *)
(***************************************************************************)
\* The generateImage call as it stands after being started in this state.
NextGenerateImage(prompt) ==
  Run([IdleCall EXCEPT !.op = "generateImage"], credentials,
      Enter("generateImage", credentials, prompt, "generateImage"), "written")

Bearer(token) == Str("Bearer " \o JsString(token))

NextOperationSendsToken ==
  \A c \in InProgress :
    (c.op = "getAuthorizationToken" /\ c.pc = "returned" /\ IsSuccess(c.res)) =>
      \A prompt \in {p \in Prompts : Truthy(p.prompt) /\ Truthy(p.projectId)} :
        LET d == NextGenerateImage(prompt) IN
        IF d.pc = "request"
        THEN LastSent(d).Authorization = Bearer(c.res.Ok)
        ELSE /\ d.pc = "checkCredentials"
             /\ \A resp \in Responses(UrlSession) :
                  LET token == getAuthorizationTokenDecode(resp) IN
                  ~CheckCredentialsFails(token) => token.Ok = c.res.Ok

BearerIsStoredToken ==
  \A d \in BagToSet(calls') :
    (/\ CopiesIn(d, calls') > CopiesIn(d, calls)
     /\ d.pc \in {"request", "request2"}
     /\ LastSent(d).url \in {UrlGenerate, UrlBackbone})
      => /\ Truthy(credentials'.authorizationKey)
         /\ LastSent(d).Authorization = Bearer(credentials'.authorizationKey)

C14_BearerIsLatestToken ==
  /\ []NextOperationSendsToken
  /\ [][BearerIsStoredToken]_vars

(***************************************************************************)
(* C15.  In generateImage and refineImage the seed of every request that   *)
(* carries one (generation, prompt rewriting, phase-B generation) is the   *)
(* caller's seed when the caller supplied one, the value 0 included, and   *)
(* is 0 when the caller supplied none.  The first conjunct is about the    *)
(* call as it is started with each argument, the second about every later  *)
(* step of the call.                                                       *)
(***************************************************************************)
\* The seed the service has to receive for this argument.
SeedOf(arg) == IF arg.seed = Undefined THEN Num("0") ELSE arg.seed

SeedEndpoints == {UrlGenerate, UrlRewrite, UrlBackbone}

\* The call of `op` with `arg` as it stands after being started in this state.
Started(op, arg) ==
  Run([IdleCall EXCEPT !.op = op], credentials, Enter(op, credentials, arg, op),
      "written")

StartedSeed ==
  \A op \in {"generateImage", "refineImage"} :
    \A arg \in (IF op = "generateImage" THEN Prompts ELSE Refinements) :
      LET d == Started(op, arg) IN
      /\ SeedOf(d.arg) = SeedOf(arg)
      /\ (d.sent # <<>> /\ LastSent(d).url \in SeedEndpoints)
           => LastSent(d).f.seed = SeedOf(arg)

StepSeed ==
  \A c \in InProgress :
    \A d \in BagToSet(calls') :
      (/\ c.op \in {"generateImage", "refineImage"}
       /\ c # d
       /\ calls' = (calls (-) One(c)) (+) One(d))
        => /\ SeedOf(d.arg) = SeedOf(c.arg)
           /\ (Len(d.sent) > Len(c.sent) /\ LastSent(d).url \in SeedEndpoints)
                => LastSent(d).f.seed = SeedOf(c.arg)

C15_SeedPreserved == []StartedSeed /\ [][StepSeed]_vars

\* The caller supplied the seed 0 (the prompt with the model IMAGEN_4) and the
\* generation request carries 0.
C15_Witness ==
  \E c \in InProgress :
    /\ c.op = "generateImage"
    /\ c.pc = "request"
    /\ c.arg.imageModel = Str("IMAGEN_4")
    /\ LastSent(c).url = UrlGenerate
    /\ LastSent(c).f.seed = Num("0")

(***************************************************************************)
(* C16.  The credentials of the instance are a copy made at construction:  *)
(* when the caller assigns to the session token or to the authorization    *)
(* token of the object it passed to the constructor, the credentials of    *)
(* the instance stay as they are, and no request ever carries a value the  *)
(* caller assigned afterwards.                                             *)
(***************************************************************************)
CallerChangeIsNotSeen ==
  (instance = "live" /\ given' # given /\ calls' = calls)
    => credentials' = credentials

SentWithOwnCredentials ==
  \A c \in InProgress :
    \A i \in 1..Len(c.sent) :
      /\ c.sent[i].Cookie # Str(JsString(OtherCookie))
      /\ c.sent[i].Authorization \notin {Bearer(OtherToken), Str(JsString(OtherToken))}

C16_CredentialsAreACopy ==
  /\ []SentWithOwnCredentials
  /\ [][CallerChangeIsNotSeen]_vars

\* The caller has replaced the session token of its object, and getNewProjectId
\* has since sent the cookie the instance was constructed with.
C16_Witness ==
  /\ given.cookie = OtherCookie
  /\ credentials.cookie = SessionCookie
  /\ \E c \in InProgress :
       /\ c.op = "getNewProjectId"
       /\ c.pc = "request"
       /\ LastSent(c).Cookie = Str(JsString(SessionCookie))

(***************************************************************************)
(* C17.  Within one refineImage call the remote calls are sequential and   *)
(* never retried: at most one request is unanswered at any time, and only  *)
(* while the call is suspended in it; the prompt-rewriting endpoint is     *)
(* called at most once, first, and the generation endpoint at most once,   *)
(* second; the phase-B request exists only if the phase-A response has     *)
(* been received and was a success; and the first failed response ends the *)
(* call with a failure, no request following it.                           *)
(***************************************************************************)
PhaseBFailed(resp) ==
  \/ TransportFailure(resp)
  \/ DecodeFailure(resp)
  \/ ParsedValue(resp) = Null
  \/ ReportsError(resp)

C17_RefineImageSequentialNoRetry ==
  \A c \in InProgress :
    c.op = "refineImage" =>
      /\ Len(c.sent) <= 2
      /\ Len(c.got) <= Len(c.sent)
      /\ Len(c.sent) <= Len(c.got) + 1
      /\ Len(c.sent) = Len(c.got) + 1 <=> c.pc \in {"request", "request2"}
      /\ Invocations(c, UrlRewrite) \subseteq {1}
      /\ Invocations(c, UrlBackbone) \subseteq {2}
      /\ Invocations(c, UrlRewrite) \cup Invocations(c, UrlBackbone) = 1..Len(c.sent)
      /\ Len(c.sent) = 2 => Len(c.got) >= 1 /\ ~PhaseAFailed(c.got[1])
      /\ \A i \in 1..Len(c.got) :
           (IF i = 1 THEN PhaseAFailed(c.got[i]) ELSE PhaseBFailed(c.got[i]))
             => /\ c.pc = "returned"
                /\ IsFailure(c.res)
                /\ Len(c.sent) = i

\* Phase A succeeded, the transport failed the phase-B request, and the call has
\* returned after its two requests.
C17_Witness ==
  \E c \in InProgress :
    /\ c.op = "refineImage"
    /\ c.pc = "returned"
    /\ Len(c.sent) = 2
    /\ c.got = <<OkResult(Str(TxtRewrite)), ErrResult(Error("ECONNRESET"))>>
    /\ IsFailure(c.res)

(***************************************************************************)
(* C18.  For every operation, a transport success whose text is not valid  *)
(* JSON makes the operation return a failure whose error message is a      *)
(* parse-failure text followed by the raw response text; and no operation  *)
(* ends by raising because a response (the session lookup's included) did  *)
(* not parse.                                                              *)
(***************************************************************************)
\* The texts the parse-failure messages of the operations begin with.
ParseMessages ==
  {"Failed to parse response: ", "Failed to parse response:", "Failed to parse JSON: "}

\* What #checkCredentials raises when the session lookup's text does not parse.
ParseFaults ==
  {CheckCredentialsError(getAuthorizationTokenDecode(resp)) :
     resp \in {r \in Responses(UrlSession) : DecodeFailure(r)}}

ParseFailureReturned(c) ==
  \A i \in 1..Len(c.got) :
    DecodeFailure(c.got[i])
      => /\ c.pc = "returned"
         /\ \E prefix \in ParseMessages :
              c.res = ErrResult(Error(prefix \o c.got[i].Ok.v))

C18_ParseFailureIsAResult ==
  \A c \in InProgress :
    /\ ParseFailureReturned(c)
    /\ c.pc = "raised" => c.err \notin ParseFaults

(***************************************************************************)
(* C19.  refineImage fills an optional field only when the caller left it  *)
(* absent: an absent candidate count becomes 1, an absent model and an     *)
(* absent aspect ratio become the defaults generateImage fills in, an      *)
(* absent seed becomes 0; and the phase-B request carries, for each of the *)
(* four, the caller's value when the caller supplied one.  The first       *)
(* conjunct is about the call as it is started with each argument, the     *)
(* second about every later step of the call.                              *)
(***************************************************************************)
\* The model and aspect ratio generateImage sends when the prompt names none.
GenerateImageFallback == generateImageDefaults(NoArg)

Supplied(value, fallback) == IF value = Undefined THEN fallback ELSE value

\* What phase B has to carry for this argument.
RefinementOf(ref) ==
  [candidatesCount |-> Supplied(ref.count, Num("1")),
   seed |-> Supplied(ref.seed, Num("0")),
   imageModel |-> Supplied(ref.imageModel, GenerateImageFallback.imageModel),
   aspectRatio |-> Supplied(ref.aspectRatio, GenerateImageFallback.aspectRatio)]

CarriesRefinement(req, ref) ==
  /\ req.f.candidatesCount = RefinementOf(ref).candidatesCount
  /\ req.f.seed = RefinementOf(ref).seed
  /\ req.f.imageModel = RefinementOf(ref).imageModel
  /\ req.f.aspectRatio = RefinementOf(ref).aspectRatio

StartedRefinement ==
  \A ref \in Refinements :
    RefinementOf(Started("refineImage", ref).arg) = RefinementOf(ref)

StepRefinement ==
  \A c \in InProgress :
    \A d \in BagToSet(calls') :
      (/\ c.op = "refineImage"
       /\ c # d
       /\ calls' = (calls (-) One(c)) (+) One(d))
        => /\ RefinementOf(d.arg) = RefinementOf(c.arg)
           /\ (Len(d.sent) > Len(c.sent) /\ LastSent(d).url = UrlBackbone)
                => CarriesRefinement(LastSent(d), c.arg)

C19_RefineImageDefaults == []StartedRefinement /\ [][StepRefinement]_vars

(***************************************************************************)
(* C20.  A failed authorization bootstrap leaves the credentials as they   *)
(* were: in the step in which the session lookup an operation awaits in    *)
(* #checkCredentials resolves and the operation ends at the throw of line  *)
(* 26, the credentials do not change; and if the token is absent then, any *)
(* operation that requires authorization and is started next is suspended  *)
(* in a session lookup again.                                              *)
(***************************************************************************)
LooksUpAgain ==
  \A op \in ChecksCredentials : Started(op, NoArg).pc = "checkCredentials"

FailedBootstrapChangesNothing ==
  \A c \in InProgress :
    \A d \in BagToSet(calls') :
      (/\ c.pc = "checkCredentials"
       /\ d.pc = "raised"
       /\ calls' = (calls (-) One(c)) (+) One(d))
        => /\ credentials' = credentials
           /\ ~Truthy(credentials.authorizationKey) => LooksUpAgain

C20_FailedBootstrapLeavesTokenAbsent == [][FailedBootstrapChangesNothing]_vars

\* The bootstrap of getCreditStatus has failed and the instance stores no token.
C20_Witness ==
  /\ ~Truthy(credentials.authorizationKey)
  /\ \E c \in InProgress :
       /\ c.op = "getCreditStatus"
       /\ c.pc = "raised"
       /\ c.sent = <<>>
====
